---- MODULE Spec2Model ----
(***************************************************************************)
(* The legacy-layout-to-tree converter of                                  *)
(* superset/assets/javascripts/dashboard/v2/util/layoutConverter.js:       *)
(* generateId, getBoundary, the node constructors, hasOverlap, doConvert   *)
(* and convert, as a state machine whose steps are the statements of       *)
(* doConvert that read or write the registry, the id counter or the        *)
(* scan variables.                                                         *)
(***************************************************************************)
EXTENDS Integers, Sequences, FiniteSets, TLC

(***************************************************************************)
(* Bounds of the model and the input domain.                               *)
(***************************************************************************)
\* longest input list drawn from the grid below
MaxItems == 3

\* row and col of an item of the grid
Rows == {0, 1}
Cols == {0, 1}
\* <<size_x, size_y>> of an item of the grid: a unit chart, a wide one (a Leaf
\* of width 2 that reaches over every col to its right) and a tall one
Shapes == {<<1, 1>>, <<8, 1>>, <<1, 2>>}
\* slice_id of the i-th item of a grid layout (unique within a list)
SliceIds == <<"240", "117", "198", "199", "207">>

\* Number.MAX_VALUE, the start value of top and left in getBoundary,
\* as the largest integer TLC represents
MAX_VALUE == 2147483647
\* -Infinity, the value of Math.max() of no arguments; absorbing for +
NegInfinity == -1000000

DASHBOARD_ROOT_ID == "DASHBOARD_ROOT_ID"
ROOT_TYPE == "DASHBOARD_GRID_ROOT_TYPE"
ROW_TYPE == "DASHBOARD_ROW_TYPE"
COLUMN_TYPE == "DASHBOARD_COLUMN_TYPE"
CHART_TYPE == "DASHBOARD_CHART_TYPE"

Item(row, col, size_x, size_y, slice_id) ==
  [row |-> row, col |-> col, size_x |-> size_x, size_y |-> size_y,
   slice_id |-> slice_id]

Geometry == Rows \X Cols \X Shapes

\* every list of n items of the grid, the i-th carrying the i-th slice id
LayoutsOfLength(n) ==
  { [i \in 1..n |-> Item(gs[i][1], gs[i][2], gs[i][3][1], gs[i][3][2], SliceIds[i])]
    : gs \in [1..n -> Geometry] }

\* the dashboards of the source file
dash1 == << Item(44, 1, 16, 16, "240") >>

dash3 ==
  << Item(0, 17, 16, 16, "117"), Item(0, 1, 16, 16, "118"), Item(0, 33, 16, 16, "119") >>

dash4 ==
  << Item(12, 1, 48, 12, "38"), Item(0, 1, 16, 12, "42"), Item(0, 17, 32, 12, "98") >>

dash5 ==
  << Item(0, 14, 28, 22, "38"), Item(0, 1, 13, 8, "42"), Item(8, 1, 13, 14, "98") >>

dash6 ==
  << Item(8, 1, 16, 9, "45"), Item(0, 17, 16, 17, "51"), Item(0, 33, 16, 17, "57"),
     Item(4, 1, 16, 4, "293"), Item(0, 1, 16, 4, "294") >>

\* layouts outside the grid: the dashboards of the source; one chart at row 1,
\* col 1; charts with a free row between them; four charts that do not
\* intersect, three of them stacked left of a tall one; and lists holding an
\* item of size_x 0
ExampleLayouts ==
  { dash1, dash3, dash4, dash5, dash6,
    << Item(1, 1, 16, 16, "240") >>,
    << Item(0, 0, 1, 1, "240"), Item(2, 0, 1, 1, "117") >>,
    << Item(3, 0, 8, 1, "240"), Item(0, 0, 1, 1, "117"), Item(0, 1, 1, 1, "198") >>,
    << Item(0, 0, 2, 1, "240"), Item(1, 0, 1, 2, "117"), Item(1, 1, 1, 1, "198"),
       Item(0, 2, 1, 3, "199") >>,
    << Item(0, 0, 0, 1, "240") >>,
    << Item(0, 0, 1, 1, "240"), Item(0, 1, 0, 1, "117") >>,
    << Item(0, 0, 0, 2, "240"), Item(0, 0, 8, 1, "117"), Item(1, 1, 1, 1, "198") >> }

(***************************************************************************)
(* Pure helpers.                                                           *)
(***************************************************************************)
Max2(a, b) == IF a >= b THEN a ELSE b

\* faulty variant of MathMax: the Row's reduce copied to the Column (a sum)
RECURSIVE MathMaxAsSum(_)
MathMaxAsSum(ws) ==
  IF ws = <<>> THEN 0 ELSE Head(ws) + MathMaxAsSum(Tail(ws))

\* Math.max.apply(null, ws): -Infinity for no arguments
RECURSIVE MathMax(_)
MathMax(ws) ==
  IF ws = <<>> THEN NegInfinity ELSE Max2(Head(ws), MathMax(Tail(ws)))

\* JavaScript + on numbers that may be -Infinity
JsPlus(a, b) ==
  IF a = NegInfinity \/ b = NegInfinity THEN NegInfinity ELSE a + b

\* children.reduce((preValue, child) => preValue + width(child), 0)
RECURSIVE ReduceSum(_, _)
ReduceSum(ws, preValue) ==
  IF ws = <<>> THEN preValue ELSE ReduceSum(Tail(ws), JsPlus(preValue, Head(ws)))

\* getBoundary: the forEach over the layout, from the start values
RECURSIVE BoundaryFrom(_, _)
BoundaryFrom(layout, b) ==
  IF layout = <<>> THEN b
  ELSE LET item == Head(layout)
           nb == [top    |-> IF item.row <= b.top THEN item.row ELSE b.top,
                  left   |-> IF item.col <= b.left THEN item.col ELSE b.left,
                  bottom |-> IF b.bottom <= item.row + item.size_y
                             THEN item.row + item.size_y ELSE b.bottom,
                  right  |-> IF b.right <= item.col + item.size_x
                             THEN item.col + item.size_x ELSE b.right]
       IN BoundaryFrom(Tail(layout), nb)

getBoundary(layout) ==
  BoundaryFrom(layout, [top |-> MAX_VALUE, bottom |-> 0, left |-> MAX_VALUE, right |-> 1])

sortByRowId(item1, item2) == item1.row - item2.row

sortByColId(item1, item2) == item1.col - item2.col

CompareBy(xAxis, item1, item2) ==
  IF xAxis THEN sortByColId(item1, item2) ELSE sortByRowId(item1, item2)

\* Array.prototype.sort with comparator: the stable order (insertion of each
\* element after the elements that do not compare greater)
RECURSIVE InsertSorted(_, _, _)
InsertSorted(sorted, item, xAxis) ==
  IF sorted = <<>> THEN <<item>>
  ELSE IF CompareBy(xAxis, Head(sorted), item) <= 0
       THEN <<Head(sorted)>> \o InsertSorted(Tail(sorted), item, xAxis)
       ELSE <<item>> \o sorted

RECURSIVE SortFrom(_, _, _)
SortFrom(rest, sorted, xAxis) ==
  IF rest = <<>> THEN sorted
  ELSE SortFrom(Tail(rest), InsertSorted(sorted, Head(rest), xAxis), xAxis)

\* faulty variant of Sort: the array is left in input order
SortOmitted(layout, xAxis) == layout

Sort(layout, xAxis) == SortFrom(layout, <<>>, xAxis)

\* faulty variant of hasOverlap: the copy is compared in input order
hasOverlapUnsorted(layout, xAxis) ==
  \E index \in 1..Len(layout) :
    /\ index # Len(layout)
    /\ IF xAxis
       THEN layout[index].col + layout[index].size_x > layout[index + 1].col
       ELSE layout[index].row + layout[index].size_y > layout[index + 1].row

\* hasOverlap: some item of the sorted copy reaches past the start of its successor
hasOverlap(layout, xAxis) ==
  LET arr == Sort(layout, xAxis)
  IN \E index \in 1..Len(arr) :
       /\ index # Len(arr)
       /\ IF xAxis
          THEN arr[index].col + arr[index].size_x > arr[index + 1].col
          ELSE arr[index].row + arr[index].size_y > arr[index + 1].row

\* faulty variant of IsLowerRow: < for <=, an item is closed one line late
IsLowerRowStrict(item, currentRow) == item.row + item.size_y < currentRow

\* one candidate row line: the items closed above it, the items below it, and
\* whether every item fell on one side
IsLowerRow(item, currentRow) == item.row + item.size_y <= currentRow

\* faulty variant of IsUpperRow: the far edge is compared, so an item the
\* line cuts counts as lying below it
IsUpperRowFarEdge(item, currentRow) ==
  ~IsLowerRow(item, currentRow) /\ item.row + item.size_y >= currentRow

IsUpperRow(item, currentRow) ==
  ~IsLowerRow(item, currentRow) /\ item.row >= currentRow

RowCut(currentItems, currentRow) ==
  [lower |-> SelectSeq(currentItems, LAMBDA item : IsLowerRow(item, currentRow)),
   upper |-> SelectSeq(currentItems, LAMBDA item : IsUpperRow(item, currentRow)),
   isDivider |-> \A i \in 1..Len(currentItems) :
                   \/ IsLowerRow(currentItems[i], currentRow)
                   \/ IsUpperRow(currentItems[i], currentRow)]

IsLowerCol(item, currentCol) == item.col + item.size_x <= currentCol

IsUpperCol(item, currentCol) ==
  ~IsLowerCol(item, currentCol) /\ item.col >= currentCol

ColCut(currentItems, currentCol) ==
  [lower |-> SelectSeq(currentItems, LAMBDA item : IsLowerCol(item, currentCol)),
   upper |-> SelectSeq(currentItems, LAMBDA item : IsUpperCol(item, currentCol)),
   isDivider |-> \A i \in 1..Len(currentItems) :
                   \/ IsLowerCol(currentItems[i], currentCol)
                   \/ IsUpperCol(currentItems[i], currentCol)]

\* faulty variant of ChartWidth: the lower limit of 1 is missing
ChartWidthUnclamped(size_x) == size_x \div 4

\* Math.max(1, Math.floor(size_x / 4.0))
ChartWidth(size_x) == Max2(1, size_x \div 4)

\* size_y * 2
ChartHeight(size_y) == size_y * 2

\* 'slice_' + slice_id
SliceKey(slice_id) == "slice_" \o slice_id

\* faulty variant of NodeId: the counter is re-created by every call of
\* generateId, which then always returns 1
NodeIdFromFreshCounter(type, n) == type \o "-" \o ToString(1)

\* the id of a node: its type, a dash and the counter's value
NodeId(type, n) == type \o "-" \o ToString(n)

getRowContainer(n) ==
  [version |-> "v2", type |-> ROW_TYPE, id |-> NodeId(ROW_TYPE, n),
   children |-> <<>>, meta |-> [rowStyle |-> "ROW_TRANSPARENT"]]

getColContainer(n) ==
  [version |-> "v2", type |-> COLUMN_TYPE, id |-> NodeId(COLUMN_TYPE, n),
   children |-> <<>>, meta |-> <<>>]

getChartHolder(item, n) ==
  [version |-> "v2", type |-> CHART_TYPE, id |-> NodeId(CHART_TYPE, n),
   children |-> <<>>,
   meta |-> [width |-> ChartWidth(item.size_x),
             height |-> ChartHeight(item.size_y),
             sliceId |-> SliceKey(item.slice_id),
             row |-> item.row,
             col |-> item.col]]

RootNode ==
  [version |-> "v2", type |-> ROOT_TYPE, id |-> DASHBOARD_ROOT_ID, children |-> <<>>]

(***************************************************************************)
(* State.                                                                  *)
(***************************************************************************)
VARIABLES
  dash,         \* the item list convert() passes to doConvert
  componentId,  \* the counter generateId closes over
  result,       \* the registry of the current convert() call: id -> node
  stack,        \* the activations of doConvert, outermost first
  status,       \* "idle" before a call of convert(), "running", "returned"
  runs,         \* calls of convert() started so far in this process
  previous      \* the registry the call before the current one returned

vars == <<dash, componentId, result, stack, status, runs, previous>>

\* a fresh activation of doConvert(layout, level, parent, root)
Frame(layout, level, parent) ==
  [layout |-> layout, level |-> level, parent |-> parent, pc |-> "begin",
   currentItems |-> <<>>, top |-> 0, bottom |-> 0, left |-> 0, right |-> 0,
   layers |-> <<>>, currentRow |-> 0, layerIndex |-> 0, rowContainer |-> "",
   currentCol |-> 0, colContainer |-> "", lower |-> <<>>, upper |-> <<>>,
   sorted |-> <<>>, index |-> 0, chartHolder |-> ""]

Top == stack[Len(stack)]

SetTop(f) == [stack EXCEPT ![Len(stack)] = f]

Pop == SubSeq(stack, 1, Len(stack) - 1)

At(pc) == status = "running" /\ stack # <<>> /\ Top.pc = pc

\* root[node.id] = node
Register(node) == (node.id :> node) @@ result

\* faulty variant of PushChild: the parent's own id is pushed
PushChildParentId(parent, id) ==
  [result EXCEPT ![parent].children = Append(@, parent)]

\* <parent>.children.push(id), the parent being the registry's object
PushChild(parent, id) ==
  [result EXCEPT ![parent].children = Append(@, id)]

\* <node>.meta.width = w
SetWidth(node, w) ==
  [result EXCEPT ![node].meta = ("width" :> w) @@ @]

\* the widths of the children of a node, in child order
ChildWidths(node) ==
  [i \in 1..Len(result[node].children) |-> result[result[node].children[i]].meta.width]

\* the state a return of the innermost activation leads to
ReturnStatus == IF Len(stack) = 1 THEN "returned" ELSE status

Init ==
  /\ \/ \E n \in 0..MaxItems : dash \in LayoutsOfLength(n)
     \/ dash \in ExampleLayouts
  /\ componentId = 1
  /\ result = <<>>
  /\ stack = <<>>
  /\ status = "idle"
  /\ runs = 0
  /\ previous = <<>>

\* faulty variant of Convert: the Root object is built once per process and
\* the registry is kept, so a later call appends to the same Root
ConvertSharedRoot(maxRuns) ==
  /\ status \in {"idle", "returned"}
  /\ runs < maxRuns
  /\ previous' = result
  /\ result' = IF runs = 0 THEN (DASHBOARD_ROOT_ID :> RootNode) ELSE result
  /\ stack' = << Frame(dash, 0, DASHBOARD_ROOT_ID) >>
  /\ status' = "running"
  /\ runs' = runs + 1
  /\ UNCHANGED <<dash, componentId>>

(***************************************************************************)
(* convert(): a fresh registry holding the Root, then doConvert at level 0 *)
(***************************************************************************)
Convert(maxRuns) ==
  /\ status \in {"idle", "returned"}
  /\ runs < maxRuns
  /\ previous' = result
  /\ result' = (DASHBOARD_ROOT_ID :> RootNode)
  /\ stack' = << Frame(dash, 0, DASHBOARD_ROOT_ID) >>
  /\ status' = "running"
  /\ runs' = runs + 1
  /\ UNCHANGED <<dash, componentId>>

(***************************************************************************)
(* doConvert, lines 95-106: the two base cases                             *)
(***************************************************************************)
\* faulty variant of DoConvertEmpty: a Row is built for the empty layout
\* before the call returns
DoConvertEmptyBuildsRow ==
  /\ At("begin")
  /\ Len(Top.layout) = 0
  /\ result' = PushChild(Top.parent, NodeId(ROW_TYPE, componentId))
                 @@ (NodeId(ROW_TYPE, componentId) :> getRowContainer(componentId))
  /\ componentId' = componentId + 1
  /\ stack' = Pop
  /\ status' = ReturnStatus
  /\ UNCHANGED <<dash, runs, previous>>

\* if (layout.length === 0) return;
DoConvertEmpty ==
  /\ At("begin")
  /\ Len(Top.layout) = 0
  /\ stack' = Pop
  /\ status' = ReturnStatus
  /\ UNCHANGED <<dash, componentId, result, runs, previous>>

\* layout.length === 1: build the chart holder and register it
DoConvertSingle ==
  /\ At("begin")
  /\ Len(Top.layout) = 1
  /\ LET chartHolder == getChartHolder(Top.layout[1], componentId)
     IN /\ result' = Register(chartHolder)
        /\ stack' = SetTop([Top EXCEPT !.chartHolder = chartHolder.id,
                                       !.pc = "pushSingle"])
  /\ componentId' = componentId + 1
  /\ UNCHANGED <<dash, status, runs, previous>>

\* parent.children.push(chartHolder.id); return;
PushSingle ==
  /\ At("pushSingle")
  /\ result' = PushChild(Top.parent, Top.chartHolder)
  /\ stack' = Pop
  /\ status' = ReturnStatus
  /\ UNCHANGED <<dash, componentId, runs, previous>>

(***************************************************************************)
(* doConvert, lines 108-135: the boundary and the row scan                 *)
(***************************************************************************)
DoConvertMulti ==
  /\ At("begin")
  /\ Len(Top.layout) > 1
  /\ LET b == getBoundary(Top.layout)
     IN stack' = SetTop([Top EXCEPT !.currentItems = Top.layout,
                                    !.top = b.top, !.bottom = b.bottom,
                                    !.left = b.left, !.right = b.right,
                                    !.layers = <<>>,
                                    !.currentRow = b.top + 1,
                                    !.pc = "rowScan"])
  /\ UNCHANGED <<dash, componentId, result, status, runs, previous>>

\* faulty variant of RowScanStep: currentRow++ sits inside if (isRowDivider),
\* so a line that some item crosses is tried again
RowScanStepNoAdvance ==
  /\ At("rowScan")
  /\ Len(Top.currentItems) # 0 /\ Top.currentRow <= Top.bottom
  /\ LET cut == RowCut(Top.currentItems, Top.currentRow)
     IN stack' = SetTop([Top EXCEPT
          !.currentItems = IF cut.isDivider THEN cut.upper ELSE @,
          !.layers = IF cut.isDivider THEN Append(@, cut.lower) ELSE @,
          !.currentRow = IF cut.isDivider THEN @ + 1 ELSE @])
  /\ UNCHANGED <<dash, componentId, result, status, runs, previous>>

\* one iteration of while (currentItems.length && currentRow <= bottom)
RowScanStep ==
  /\ At("rowScan")
  /\ Len(Top.currentItems) # 0 /\ Top.currentRow <= Top.bottom
  /\ LET cut == RowCut(Top.currentItems, Top.currentRow)
     IN stack' = SetTop([Top EXCEPT
          !.currentItems = IF cut.isDivider THEN cut.upper ELSE @,
          !.layers = IF cut.isDivider THEN Append(@, cut.lower) ELSE @,
          !.currentRow = @ + 1])
  /\ UNCHANGED <<dash, componentId, result, status, runs, previous>>

\* the loop condition fails: on to layers.forEach
RowScanExit ==
  /\ At("rowScan")
  /\ ~(Len(Top.currentItems) # 0 /\ Top.currentRow <= Top.bottom)
  /\ stack' = SetTop([Top EXCEPT !.layerIndex = 1, !.pc = "layers"])
  /\ UNCHANGED <<dash, componentId, result, status, runs, previous>>

(***************************************************************************)
(* doConvert, lines 137-200: one Row per layer                             *)
(***************************************************************************)
\* forEach is over: doConvert returns
LayersDone ==
  /\ At("layers")
  /\ Top.layerIndex > Len(Top.layers)
  /\ stack' = Pop
  /\ status' = ReturnStatus
  /\ UNCHANGED <<dash, componentId, result, runs, previous>>

\* const rowContainer = getRowContainer(); root[rowContainer.id] = rowContainer;
NewRow ==
  /\ At("layers")
  /\ Top.layerIndex <= Len(Top.layers)
  /\ LET rowContainer == getRowContainer(componentId)
     IN /\ result' = Register(rowContainer)
        /\ stack' = SetTop([Top EXCEPT !.rowContainer = rowContainer.id,
                                       !.pc = "pushRow"])
  /\ componentId' = componentId + 1
  /\ UNCHANGED <<dash, status, runs, previous>>

\* parent.children.push(rowContainer.id); currentItems = layer.slice();
\* then the choice between the flat layout and the column scan
PushRow ==
  /\ At("pushRow")
  /\ result' = PushChild(Top.parent, Top.rowContainer)
  /\ LET layer == Top.layers[Top.layerIndex]
     IN IF Top.level >= 2 \/ ~hasOverlap(layer, TRUE)
        THEN stack' = SetTop([Top EXCEPT !.currentItems = Sort(layer, TRUE),
                                         !.sorted = Sort(layer, TRUE),
                                         !.index = 1,
                                         !.pc = "rowFlat"])
        ELSE stack' = SetTop([Top EXCEPT !.currentItems = layer,
                                         !.currentCol = Top.left + 1,
                                         !.pc = "colScan"])
  /\ UNCHANGED <<dash, componentId, status, runs, previous>>

\* lines 145-149, one item: build the chart holder and register it
RowFlatChart ==
  /\ At("rowFlat")
  /\ Top.index <= Len(Top.sorted)
  /\ LET chartHolder == getChartHolder(Top.sorted[Top.index], componentId)
     IN /\ result' = Register(chartHolder)
        /\ stack' = SetTop([Top EXCEPT !.chartHolder = chartHolder.id,
                                       !.pc = "rowFlatPush"])
  /\ componentId' = componentId + 1
  /\ UNCHANGED <<dash, status, runs, previous>>

\* rowContainer.children.push(chartHolder.id);
RowFlatPush ==
  /\ At("rowFlatPush")
  /\ result' = PushChild(Top.rowContainer, Top.chartHolder)
  /\ stack' = SetTop([Top EXCEPT !.index = @ + 1, !.pc = "rowFlat"])
  /\ UNCHANGED <<dash, componentId, status, runs, previous>>

\* the flat layout is over: on to the Row's width
RowFlatDone ==
  /\ At("rowFlat")
  /\ Top.index > Len(Top.sorted)
  /\ stack' = SetTop([Top EXCEPT !.pc = "rowWidth"])
  /\ UNCHANGED <<dash, componentId, result, status, runs, previous>>

\* lines 197-199: rowContainer.meta.width = sum of the children's widths
RowWidth ==
  /\ At("rowWidth")
  /\ result' = SetWidth(Top.rowContainer, ReduceSum(ChildWidths(Top.rowContainer), 0))
  /\ stack' = SetTop([Top EXCEPT !.layerIndex = @ + 1, !.pc = "layers"])
  /\ UNCHANGED <<dash, componentId, status, runs, previous>>

(***************************************************************************)
(* doConvert, lines 151-194: the column scan of a layer with col overlap   *)
(***************************************************************************)
\* an iteration whose candidate line some item straddles: currentCol++
ColScanStep ==
  /\ At("colScan")
  /\ Len(Top.currentItems) # 0 /\ Top.currentCol <= Top.right
  /\ ~ColCut(Top.currentItems, Top.currentCol).isDivider
  /\ stack' = SetTop([Top EXCEPT !.currentCol = @ + 1])
  /\ UNCHANGED <<dash, componentId, result, status, runs, previous>>

\* an iteration that finds a divider: build the Column and register it
NewColumn ==
  /\ At("colScan")
  /\ Len(Top.currentItems) # 0 /\ Top.currentCol <= Top.right
  /\ LET cut == ColCut(Top.currentItems, Top.currentCol)
         colContainer == getColContainer(componentId)
     IN /\ cut.isDivider
        /\ result' = Register(colContainer)
        /\ stack' = SetTop([Top EXCEPT !.lower = cut.lower, !.upper = cut.upper,
                                       !.colContainer = colContainer.id,
                                       !.pc = "pushCol"])
  /\ componentId' = componentId + 1
  /\ UNCHANGED <<dash, status, runs, previous>>

\* rowContainer.children.push(colContainer.id); then the flat layout of the
\* column, or doConvert(lower, level+2, colContainer, root)
PushCol ==
  /\ At("pushCol")
  /\ result' = PushChild(Top.rowContainer, Top.colContainer)
  /\ IF ~hasOverlap(Top.lower, FALSE)
     THEN stack' = SetTop([Top EXCEPT !.lower = Sort(Top.lower, FALSE),
                                      !.sorted = Sort(Top.lower, FALSE),
                                      !.index = 1,
                                      !.pc = "colFlat"])
     ELSE stack' = Append(SetTop([Top EXCEPT !.pc = "colWidth"]),
                          Frame(Top.lower, Top.level + 2, Top.colContainer))
  /\ UNCHANGED <<dash, componentId, status, runs, previous>>

\* lines 177-181, one item: build the chart holder and register it
ColFlatChart ==
  /\ At("colFlat")
  /\ Top.index <= Len(Top.sorted)
  /\ LET chartHolder == getChartHolder(Top.sorted[Top.index], componentId)
     IN /\ result' = Register(chartHolder)
        /\ stack' = SetTop([Top EXCEPT !.chartHolder = chartHolder.id,
                                       !.pc = "colFlatPush"])
  /\ componentId' = componentId + 1
  /\ UNCHANGED <<dash, status, runs, previous>>

\* colContainer.children.push(chartHolder.id);
ColFlatPush ==
  /\ At("colFlatPush")
  /\ result' = PushChild(Top.colContainer, Top.chartHolder)
  /\ stack' = SetTop([Top EXCEPT !.index = @ + 1, !.pc = "colFlat"])
  /\ UNCHANGED <<dash, componentId, status, runs, previous>>

\* the flat layout of the column is over: on to the Column's width
ColFlatDone ==
  /\ At("colFlat")
  /\ Top.index > Len(Top.sorted)
  /\ stack' = SetTop([Top EXCEPT !.pc = "colWidth"])
  /\ UNCHANGED <<dash, componentId, result, status, runs, previous>>

\* lines 187-193: colContainer.meta.width = the largest child width;
\* currentItems = upper.slice(); currentCol++
ColWidth ==
  /\ At("colWidth")
  /\ result' = SetWidth(Top.colContainer, MathMax(ChildWidths(Top.colContainer)))
  /\ stack' = SetTop([Top EXCEPT !.currentItems = Top.upper,
                                 !.currentCol = @ + 1,
                                 !.pc = "colScan"])
  /\ UNCHANGED <<dash, componentId, status, runs, previous>>

\* the loop condition fails: on to the Row's width
ColScanExit ==
  /\ At("colScan")
  /\ ~(Len(Top.currentItems) # 0 /\ Top.currentCol <= Top.right)
  /\ stack' = SetTop([Top EXCEPT !.pc = "rowWidth"])
  /\ UNCHANGED <<dash, componentId, result, status, runs, previous>>

(***************************************************************************)
(* Specifications.                                                         *)
(***************************************************************************)
DoConvertStep ==
  \/ DoConvertEmpty
  \/ DoConvertSingle
  \/ PushSingle
  \/ DoConvertMulti
  \/ RowScanStep
  \/ RowScanExit
  \/ LayersDone
  \/ NewRow
  \/ PushRow
  \/ RowFlatChart
  \/ RowFlatPush
  \/ RowFlatDone
  \/ RowWidth
  \/ ColScanStep
  \/ NewColumn
  \/ PushCol
  \/ ColFlatChart
  \/ ColFlatPush
  \/ ColFlatDone
  \/ ColWidth
  \/ ColScanExit

\* the script as written: convert() is called once
Next == Convert(1) \/ DoConvertStep

Spec == Init /\ [][Next]_vars

\* the script run to completion: the interpreter keeps executing the one
\* thread of the program, so a statement that can run does run
SpecFair == Spec /\ WF_vars(Next)

\* convert() called a second time in the same process, the id counter
\* carried over
NextRepeat == Convert(2) \/ DoConvertStep

SpecRepeat == Init /\ [][NextRepeat]_vars

(***************************************************************************)
(* Vocabulary of the properties.                                           *)
(***************************************************************************)
Done == status = "returned"

\* the input contract of the converter: non-negative position, strictly
\* positive sizes
ValidItem(item) ==
  item.row >= 0 /\ item.col >= 0 /\ item.size_x > 0 /\ item.size_y > 0

ValidLayout(layout) == \A i \in 1..Len(layout) : ValidItem(layout[i])

NodesOfType(reg, type) == {k \in DOMAIN reg : reg[k].type = type}

Leaves == NodesOfType(result, CHART_TYPE)

RowNodes == NodesOfType(result, ROW_TYPE)

ColumnNodes == NodesOfType(result, COLUMN_TYPE)

\* the places <<parent, position>> of the children lists of a registry
ChildSlots(reg) ==
  UNION { { <<k, i>> : i \in 1..Len(reg[k].children) } : k \in DOMAIN reg }

\* the places at which id occurs as a child
SlotsOf(reg, id) == {s \in ChildSlots(reg) : reg[s[1]].children[s[2]] = id}

ChildSet(reg, k) == {reg[k].children[i] : i \in 1..Len(reg[k].children)}

\* the nodes reachable from the Root along children lists in at most n steps
RECURSIVE ReachableWithin(_, _)
ReachableWithin(reg, n) ==
  IF n = 0 THEN {DASHBOARD_ROOT_ID}
  ELSE LET r == ReachableWithin(reg, n - 1)
       IN r \cup UNION {ChildSet(reg, k) \cap DOMAIN reg : k \in r}

ChildrenOfType(k, type) ==
  \A i \in 1..Len(result[k].children) :
    /\ result[k].children[i] \in DOMAIN result
    /\ result[result[k].children[i]].type = type

\* the Leaves the i-th input item produced
LeavesOf(i) == {k \in Leaves : result[k].meta.sliceId = "slice_" \o dash[i].slice_id}

(***************************************************************************)
(* C1  Coverage: when the conversion of a valid layout has returned, the   *)
(* Leaves of the registry are the input items, one Leaf per item: every    *)
(* item's content id (as 'slice_' + slice_id) is carried by exactly one    *)
(* Leaf and there is no other Leaf.                                        *)
(***************************************************************************)
C1_Coverage ==
  (Done /\ ValidLayout(dash)) =>
    /\ \A i \in 1..Len(dash) : Cardinality(LeavesOf(i)) = 1
    /\ Cardinality(Leaves) = Len(dash)

\* a returned conversion of three or more valid items that cut two row layers
\* and ran a column scan
C1_Witness ==
  /\ Done /\ ValidLayout(dash) /\ Len(dash) >= 3
  /\ Len(result[DASHBOARD_ROOT_ID].children) >= 2
  /\ ColumnNodes # {}
  /\ Cardinality(Leaves) = Len(dash)

(***************************************************************************)
(* C2  Tree well-formedness: in every state of a conversion each child id  *)
(* is a key of the registry and fills exactly one place of one children    *)
(* list, and the Root is nobody's child; when the conversion has returned  *)
(* every other key fills exactly one place and is reachable from the Root. *)
(***************************************************************************)
C2_WellFormed ==
  /\ \A s \in ChildSlots(result) :
       LET id == result[s[1]].children[s[2]]
       IN /\ id \in DOMAIN result
          /\ SlotsOf(result, id) = {s}
          /\ id # DASHBOARD_ROOT_ID
  /\ Done =>
       /\ \A k \in DOMAIN result \ {DASHBOARD_ROOT_ID} :
            Cardinality(SlotsOf(result, k)) = 1
       /\ ReachableWithin(result, Cardinality(DOMAIN result)) = DOMAIN result

\* a returned conversion whose tree has a Column holding a Row (the nested
\* call of doConvert ran)
C2_Witness ==
  /\ Done
  /\ \E c \in ColumnNodes : \E r \in RowNodes : r \in ChildSet(result, c)
  /\ \E r \in RowNodes : result[r].children # <<>> /\ ChildrenOfType(r, CHART_TYPE)

(***************************************************************************)
(* C3  Single-item case, as claimed: the conversion of a one-item layout   *)
(* returns a Root whose only child is a Row whose only child is the item's *)
(* Leaf, and the children of a Root are Rows in every state.               *)
(***************************************************************************)
C3_SingleItemUnderRow ==
  /\ status # "idle" => ChildrenOfType(DASHBOARD_ROOT_ID, ROW_TYPE)
  /\ (Done /\ Len(dash) = 1) =>
       /\ Len(result[DASHBOARD_ROOT_ID].children) = 1
       /\ LET r == result[DASHBOARD_ROOT_ID].children[1]
          IN /\ result[r].type = ROW_TYPE
             /\ Len(result[r].children) = 1
             /\ result[r].children[1] \in LeavesOf(1)

(***************************************************************************)
(* C4  Width aggregation: when the conversion of a valid layout has        *)
(* returned, the width of every Row is the sum of its children's widths    *)
(* and the width of every Column is the largest of its children's widths   *)
(* (-Infinity, as Math.max() gives, for a Column without children, and a   *)
(* sum over -Infinity is -Infinity); and whenever a Row's or Column's      *)
(* width is about to be computed every child has its width.                *)
(***************************************************************************)
HasWidth(k) == "width" \in DOMAIN result[k].meta

WidthOf(k) == result[k].meta.width

RECURSIVE SumOfWidths(_, _)
SumOfWidths(k, n) ==
  IF n = 0 THEN 0 ELSE SumOfWidths(k, n - 1) + WidthOf(result[k].children[n])

IsSumOfChildren(k, w) ==
  IF \E c \in ChildSet(result, k) : WidthOf(c) = NegInfinity
  THEN w = NegInfinity
  ELSE w = SumOfWidths(k, Len(result[k].children))

IsMaxOfChildren(k, w) ==
  IF result[k].children = <<>>
  THEN w = NegInfinity
  ELSE /\ \E c \in ChildSet(result, k) : WidthOf(c) = w
       /\ \A c \in ChildSet(result, k) : WidthOf(c) <= w

C4_WidthAggregation ==
  /\ At("rowWidth") => \A c \in ChildSet(result, Top.rowContainer) : HasWidth(c)
  /\ At("colWidth") => \A c \in ChildSet(result, Top.colContainer) : HasWidth(c)
  /\ (Done /\ ValidLayout(dash)) =>
       /\ \A r \in RowNodes : HasWidth(r) /\ IsSumOfChildren(r, WidthOf(r))
       /\ \A c \in ColumnNodes : HasWidth(c) /\ IsMaxOfChildren(c, WidthOf(c))

\* a returned conversion of a valid layout with a Column over children of
\* widths 1 and 2 and a Row over more than one child
C4_Witness ==
  /\ Done /\ ValidLayout(dash)
  /\ \E c \in ColumnNodes :
       /\ WidthOf(c) = 2
       /\ \E x \in ChildSet(result, c) : WidthOf(x) = 1
  /\ \E r \in RowNodes : Len(result[r].children) >= 2 /\ WidthOf(r) >= 2

(***************************************************************************)
(* C5  Determinism: when a second conversion of the same layout in the     *)
(* same process has returned, its tree and the tree of the first are the   *)
(* same up to node ids: the same types, meta and child order from the Root *)
(* down, and as many nodes.                                                *)
(***************************************************************************)
\* a subtree without its ids
RECURSIVE Shape(_, _)
Shape(reg, k) ==
  [type |-> reg[k].type,
   meta |-> IF "meta" \in DOMAIN reg[k] THEN reg[k].meta ELSE <<>>,
   children |-> [i \in 1..Len(reg[k].children) |-> Shape(reg, reg[k].children[i])]]

C5_Determinism ==
  (Done /\ runs = 2) =>
    /\ Shape(result, DASHBOARD_ROOT_ID) = Shape(previous, DASHBOARD_ROOT_ID)
    /\ Cardinality(DOMAIN result) = Cardinality(DOMAIN previous)

\* a second conversion has returned a tree with a Column, under ids none of
\* which the first conversion used
C5_Witness ==
  /\ Done /\ runs = 2
  /\ ColumnNodes # {}
  /\ Cardinality(DOMAIN result) >= 5
  /\ DOMAIN result \cap DOMAIN previous = {DASHBOARD_ROOT_ID}

(***************************************************************************)
(* C6  Malformed input rejection, as claimed: a conversion of a layout     *)
(* holding an item of size_x 0 does not return normally and adds no node   *)
(* to the registry.                                                        *)
(***************************************************************************)
HasZeroSizeX(layout) == \E i \in 1..Len(layout) : layout[i].size_x = 0

C6_MalformedRejected ==
  HasZeroSizeX(dash) =>
    /\ status # "returned"
    /\ DOMAIN result \subseteq {DASHBOARD_ROOT_ID}

(***************************************************************************)
(* C7  Empty input: the conversion of the empty layout allocates no id,    *)
(* and once called holds the Root alone, without children, in its registry *)
(* up to and including its return.                                         *)
(***************************************************************************)
C7_EmptyInput ==
  dash = <<>> =>
    /\ componentId = 1
    /\ status \in {"idle", "running", "returned"}
    /\ status # "idle" =>
         /\ DOMAIN result = {DASHBOARD_ROOT_ID}
         /\ result[DASHBOARD_ROOT_ID].type = ROOT_TYPE
         /\ result[DASHBOARD_ROOT_ID].children = <<>>

\* the conversion of the empty layout has returned
C7_Witness == Done /\ dash = <<>> /\ DOMAIN result = {DASHBOARD_ROOT_ID}

(***************************************************************************)
(* C8  Child order reflects visual order: when the conversion of a valid   *)
(* layout of two or more items that no horizontal line cuts and in which   *)
(* the col extents of no two items intersect has returned, the Root holds  *)
(* one Row and the Row holds the Leaves of all the items in ascending col  *)
(* order, whatever the input order; and in every registry the Leaf         *)
(* children of a Row are in non-decreasing col order, those of a Column in *)
(* non-decreasing row order.                                               *)
(***************************************************************************)
\* no line strictly inside the layout's vertical extent is free of items
NoHorizontalCut(layout) ==
  LET idx == 1..Len(layout)
      top == CHOOSE r \in {layout[i].row : i \in idx} :
               \A i \in idx : r <= layout[i].row
      bottom == CHOOSE r \in {layout[i].row + layout[i].size_y : i \in idx} :
                  \A i \in idx : layout[i].row + layout[i].size_y <= r
  IN \A line \in (top + 1)..(bottom - 1) :
       \E i \in idx : layout[i].row < line /\ line < layout[i].row + layout[i].size_y

\* the col extents of any two items are disjoint
NoColumnOverlap(layout) ==
  \A i, j \in 1..Len(layout) :
    i # j => \/ layout[i].col + layout[i].size_x <= layout[j].col
             \/ layout[j].col + layout[j].size_x <= layout[i].col

\* the children of k that are Leaves, as places of its children list
LeafPlaces(k) ==
  {i \in 1..Len(result[k].children) :
     /\ result[k].children[i] \in DOMAIN result
     /\ result[result[k].children[i]].type = CHART_TYPE}

ChildMeta(k, i) == result[result[k].children[i]].meta

C8_ChildOrder ==
  /\ (Done /\ ValidLayout(dash) /\ Len(dash) >= 2
        /\ NoHorizontalCut(dash) /\ NoColumnOverlap(dash)) =>
       /\ Len(result[DASHBOARD_ROOT_ID].children) = 1
       /\ LET r == result[DASHBOARD_ROOT_ID].children[1]
          IN /\ result[r].type = ROW_TYPE
             /\ Len(result[r].children) = Len(dash)
             /\ LeafPlaces(r) = 1..Len(dash)
             /\ \A i \in 1..Len(dash) : LeavesOf(i) \subseteq ChildSet(result, r)
             /\ \A i, j \in 1..Len(dash) :
                  i < j => ChildMeta(r, i).col < ChildMeta(r, j).col
  /\ \A r \in RowNodes : \A i, j \in LeafPlaces(r) :
       i < j => ChildMeta(r, i).col <= ChildMeta(r, j).col
  /\ \A c \in ColumnNodes : \A i, j \in LeafPlaces(c) :
       i < j => ChildMeta(c, i).row <= ChildMeta(c, j).row

\* dash3 (three 16x16 charts given in the order col 17, 1, 33) has been
\* converted to one Row of width 12 whose Leaves are at col 1, 17, 33
C8_Witness ==
  /\ Done /\ dash = dash3
  /\ Len(result[DASHBOARD_ROOT_ID].children) = 1
  /\ LET r == result[DASHBOARD_ROOT_ID].children[1]
     IN /\ [i \in 1..3 |-> ChildMeta(r, i).col] = <<1, 17, 33>>
        /\ \A i \in 1..3 : ChildMeta(r, i).width = 4 /\ ChildMeta(r, i).height = 32
        /\ result[r].meta.width = 12

(***************************************************************************)
(* C9  Leaf derivation: every Leaf of the registry, in every state, has no *)
(* children and is built from one input item: its width is                 *)
(* max(1, floor(size_x / 4)), its height 2 * size_y, its sliceId 'slice_'  *)
(* followed by the item's slice_id, its row and col the item's.            *)
(***************************************************************************)
FloorDiv4(n) == CHOOSE q \in 0..n : 4 * q <= n /\ n < 4 * (q + 1)

DerivedFrom(k, item) ==
  /\ (result[k].meta.width = 1 /\ FloorDiv4(item.size_x) <= 1)
       \/ (result[k].meta.width = FloorDiv4(item.size_x) /\ FloorDiv4(item.size_x) >= 1)
  /\ result[k].meta.height = item.size_y + item.size_y
  /\ result[k].meta.sliceId = "slice_" \o item.slice_id
  /\ result[k].meta.row = item.row
  /\ result[k].meta.col = item.col
  /\ DOMAIN result[k].meta = {"width", "height", "sliceId", "row", "col"}

C9_LeafDerivation ==
  \A k \in Leaves :
    /\ result[k].children = <<>>
    /\ \E i \in 1..Len(dash) : DerivedFrom(k, dash[i])

ParentsOfType(k, type) ==
  {p \in NodesOfType(result, type) : k \in ChildSet(result, p)}

\* a returned conversion that emitted a Leaf under a Row and a Leaf under a
\* Column, one of them of width 2
C9_Witness ==
  /\ Done
  /\ \E k \in Leaves : ParentsOfType(k, ROW_TYPE) # {}
  /\ \E k \in Leaves : ParentsOfType(k, COLUMN_TYPE) # {}
  /\ \E k \in Leaves : result[k].meta.width = 2

(***************************************************************************)
(* C10  Id allocation: the counter never goes back, also from one call of  *)
(* convert() to the next; a step that allocates an id advances it by one   *)
(* and adds to the registry one key that neither the registry nor the      *)
(* registry of the call before holds, the node under it carrying that key  *)
(* as its id, and leaves the nodes already registered under their keys; no *)
(* other step of a conversion adds or removes a key.                       *)
(***************************************************************************)
IdStep ==
  /\ componentId' >= componentId
  /\ componentId' # componentId =>
       /\ componentId' = componentId + 1
       /\ runs' = runs
       /\ \E k \in DOMAIN result' :
            /\ k \notin DOMAIN result
            /\ k \notin DOMAIN previous
            /\ DOMAIN result' = DOMAIN result \cup {k}
            /\ result'[k].id = k
       /\ \A j \in DOMAIN result :
            result'[j].id = result[j].id /\ result'[j].type = result[j].type
  /\ (componentId' = componentId /\ runs' = runs) => DOMAIN result' = DOMAIN result
  /\ \A j \in DOMAIN result' : result'[j].id = j

C10_IdAllocation == [][IdStep]_vars

\* a second conversion in the same process has returned four or more nodes
C10_Witness ==
  /\ Done /\ runs = 2
  /\ Cardinality(DOMAIN result) >= 5
  /\ Cardinality(DOMAIN previous) >= 5
  /\ componentId >= 9

(***************************************************************************)
(* C11  Overlap detector, as amended: on items of strictly positive size   *)
(* hasOverlap(items, axis) is true exactly when the extents of some two    *)
(* items, adjacent in sort order or not, intersect along the axis. It is   *)
(* stated of the input list on both axes and of every list doConvert       *)
(* hands to hasOverlap (a row layer on the col axis, a column layer on the *)
(* row axis).                                                              *)
(***************************************************************************)
NearEdge(item, xAxis) == IF xAxis THEN item.col ELSE item.row

FarEdge(item, xAxis) ==
  IF xAxis THEN item.col + item.size_x ELSE item.row + item.size_y

\* the extents of two items intersect along the axis
Intersect(a, b, xAxis) ==
  NearEdge(a, xAxis) < FarEdge(b, xAxis) /\ NearEdge(b, xAxis) < FarEdge(a, xAxis)

GenuineOverlap(layout, xAxis) ==
  \E i, j \in 1..Len(layout) : i # j /\ Intersect(layout[i], layout[j], xAxis)

\* two items that are not neighbours in the sorted copy intersect
NonAdjacentOverlap(layout, xAxis) ==
  LET arr == Sort(layout, xAxis)
  IN \E i, j \in 1..Len(arr) : j > i + 1 /\ Intersect(arr[i], arr[j], xAxis)

OverlapDecided(layout, xAxis) ==
  hasOverlap(layout, xAxis) <=> GenuineOverlap(layout, xAxis)

C11_OverlapComplete ==
  ValidLayout(dash) =>
    /\ \A xAxis \in BOOLEAN : OverlapDecided(dash, xAxis)
    /\ At("pushRow") => OverlapDecided(Top.layers[Top.layerIndex], TRUE)
    /\ At("pushCol") => OverlapDecided(Top.lower, FALSE)

\* doConvert is about to test a row layer of valid items in which the first
\* item in col order reaches over its successor into the third: hasOverlap
\* answers true
C11_Witness ==
  /\ ValidLayout(dash)
  /\ At("pushRow")
  /\ Top.level = 0
  /\ NonAdjacentOverlap(Top.layers[Top.layerIndex], TRUE)
  /\ hasOverlap(Top.layers[Top.layerIndex], TRUE)

\* C11 as claimed: the layout in hand or some layout of the input domain is
\* one of strictly positive sizes in which two items not adjacent in sort
\* order intersect along an axis and hasOverlap answers false
C11_MissedOverlapExists ==
  \E layout \in {dash} \cup ExampleLayouts
                  \cup UNION {LayoutsOfLength(n) : n \in 0..MaxItems} :
    \E xAxis \in BOOLEAN :
      /\ ValidLayout(layout)
      /\ NonAdjacentOverlap(layout, xAxis)
      /\ ~hasOverlap(layout, xAxis)

(***************************************************************************)
(* C12  Layer separation and order: in every activation of doConvert the   *)
(* layers of the row scan are in ascending row order and no item crosses a *)
(* cut: every item of an earlier layer ends (row + size_y) at or above the *)
(* start (row) of every item of a later layer and of every item the scan   *)
(* still holds; the column scan's cut separates its lower items from its   *)
(* upper items in the same way on col; and in the registry the items under *)
(* an earlier Row child of a parent end at or above the start of the items *)
(* under a later Row child, the items under an earlier Column child of a   *)
(* Row end at or left of the start of those under a later Column child.    *)
(***************************************************************************)
ItemsIn(layout) == {layout[i] : i \in 1..Len(layout)}

\* every item of before ends at or ahead of the start of every item of after
Separated(before, after, xAxis) ==
  \A a \in before, b \in after : FarEdge(a, xAxis) <= NearEdge(b, xAxis)

\* the Leaves at or below node k, at most n children lists down
RECURSIVE LeavesBelow(_, _)
LeavesBelow(k, n) ==
  IF k \notin DOMAIN result THEN {}
  ELSE IF result[k].type = CHART_TYPE THEN {k}
  ELSE IF n = 0 THEN {}
  ELSE UNION {LeavesBelow(c, n - 1) : c \in ChildSet(result, k)}

\* the input items whose Leaf lies at or below node k
ItemsBelow(k) ==
  {dash[i] : i \in {i \in 1..Len(dash) :
                     LeavesOf(i) \cap LeavesBelow(k, Cardinality(DOMAIN result)) # {}}}

ScanPcOfColumn == {"pushCol", "colFlat", "colFlatPush", "colWidth"}

LayersSeparated(f) ==
  /\ \A i, j \in 1..Len(f.layers) :
       i < j => Separated(ItemsIn(f.layers[i]), ItemsIn(f.layers[j]), FALSE)
  /\ f.pc = "rowScan" =>
       \A i \in 1..Len(f.layers) :
         Separated(ItemsIn(f.layers[i]), ItemsIn(f.currentItems), FALSE)
  /\ f.pc \in ScanPcOfColumn => Separated(ItemsIn(f.lower), ItemsIn(f.upper), TRUE)

SiblingsOrdered(p) ==
  \A i, j \in 1..Len(result[p].children) :
    LET a == result[p].children[i]
        b == result[p].children[j]
    IN i < j =>
         /\ (result[a].type = ROW_TYPE /\ result[b].type = ROW_TYPE) =>
              Separated(ItemsBelow(a), ItemsBelow(b), FALSE)
         /\ (result[p].type = ROW_TYPE /\ result[a].type = COLUMN_TYPE
               /\ result[b].type = COLUMN_TYPE) =>
              Separated(ItemsBelow(a), ItemsBelow(b), TRUE)

C12_LayerOrder ==
  /\ \A d \in 1..Len(stack) : LayersSeparated(stack[d])
  /\ \A p \in DOMAIN result : SiblingsOrdered(p)

\* the conversion has returned a registry in which some parent holds two Row
\* children with items below each and some Row holds two Column children with
\* items below each
C12_Witness ==
  /\ Done
  /\ \E p \in DOMAIN result : \E i, j \in 1..Len(result[p].children) :
       /\ i < j
       /\ result[result[p].children[i]].type = ROW_TYPE
       /\ result[result[p].children[j]].type = ROW_TYPE
       /\ ItemsBelow(result[p].children[i]) # {}
       /\ ItemsBelow(result[p].children[j]) # {}
  /\ \E r \in RowNodes : \E i, j \in 1..Len(result[r].children) :
       /\ i < j
       /\ result[result[r].children[i]].type = COLUMN_TYPE
       /\ result[result[r].children[j]].type = COLUMN_TYPE
       /\ ItemsBelow(result[r].children[i]) # {}
       /\ ItemsBelow(result[r].children[j]) # {}

(***************************************************************************)
(* C13  Termination: the conversion of every list of valid items returns.  *)
(* On the way, a row scan has performed at most bottom - top iterations    *)
(* and a column scan at most right - left; an activation doConvert starts  *)
(* receives only items of its caller's list; and activations nest at most  *)
(* two deep: the outer one at level 0, the inner one at level 2, and an    *)
(* activation at level 2 neither scans for columns nor calls doConvert.    *)
(***************************************************************************)
\* iterations the row scan of activation f has completed
RowIterations(f) == f.currentRow - (f.top + 1)

\* iterations the column scan of activation f has completed
ColIterations(f) == f.currentCol - (f.left + 1)

ColumnPc == {"colScan", "pushCol", "colFlat", "colFlatPush", "colWidth"}

ScansBounded(f) ==
  /\ f.pc = "rowScan" =>
       /\ 0 <= RowIterations(f)
       /\ RowIterations(f) <= f.bottom - f.top
  /\ f.pc = "colScan" =>
       /\ 0 <= ColIterations(f)
       /\ ColIterations(f) <= f.right - f.left
  /\ f.pc \in ColumnPc \ {"colScan"} => ColIterations(f) < f.right - f.left

NestingBounded ==
  /\ Len(stack) <= 2
  /\ \A d \in 1..Len(stack) :
       /\ stack[d].level = 2 * (d - 1)
       /\ stack[d].level >= 2 => stack[d].pc \notin ColumnPc
       /\ d > 1 => /\ ItemsIn(stack[d].layout) \subseteq ItemsIn(stack[d - 1].layout)
                   /\ Len(stack[d].layout) <= Len(stack[d - 1].layout)
                   /\ stack[d - 1].pc = "colWidth"

C13_Bounded ==
  /\ NestingBounded
  /\ \A d \in 1..Len(stack) : ScansBounded(stack[d])

C13_Termination ==
  /\ []C13_Bounded
  /\ (ValidLayout(dash) /\ ~Done) ~> Done

\* the conversion of a valid layout has returned after a call of doConvert
\* from the column scan: some Column holds a Row
C13_Witness ==
  /\ Done /\ ValidLayout(dash)
  /\ \E c \in ColumnNodes : \E i \in 1..Len(result[c].children) :
       result[result[c].children[i]].type = ROW_TYPE

(***************************************************************************)
(* C14  Depth cap, as claimed: an activation of doConvert at level 2 or    *)
(* more lays every layer out as Leaves in col order directly under the     *)
(* layer's Row and never scans for columns, so that Columns are built at   *)
(* level 0 only; no Column lies below another Column; the children of a    *)
(* Row are all Leaves or all Columns, those of a Column all Leaves or all  *)
(* Rows; and in the registry returned every Leaf is reached from the Root  *)
(* along Root, Row, Leaf or Root, Row, Column, Leaf or Root, Row, Column,  *)
(* Row, Leaf.                                                              *)
(***************************************************************************)
\* the nodes strictly below node k, at most n children lists down
RECURSIVE NodesBelow(_, _)
NodesBelow(k, n) ==
  IF n = 0 \/ k \notin DOMAIN result THEN {}
  ELSE ChildSet(result, k)
         \cup UNION {NodesBelow(c, n - 1) : c \in ChildSet(result, k)}

HasParent(k) == \E p \in DOMAIN result : k \in ChildSet(result, p)

ParentOf(k) == CHOOSE p \in DOMAIN result : k \in ChildSet(result, p)

\* the types of the nodes from the Root (or from a node without parent) down
\* to node k, following at most n parent links
RECURSIVE PathTo(_, _)
PathTo(k, n) ==
  IF n = 0 \/ ~HasParent(k) THEN << result[k].type >>
  ELSE Append(PathTo(ParentOf(k), n - 1), result[k].type)

PathShapes ==
  { <<ROOT_TYPE, ROW_TYPE, CHART_TYPE>>,
    <<ROOT_TYPE, ROW_TYPE, COLUMN_TYPE, CHART_TYPE>>,
    <<ROOT_TYPE, ROW_TYPE, COLUMN_TYPE, ROW_TYPE, CHART_TYPE>> }

\* activation f, at level 2 or more, keeps to the flat layout
FlatAtDepth(f) ==
  f.level >= 2 =>
    /\ f.pc \notin ColumnPc
    /\ f.colContainer = ""
    /\ f.pc = "rowWidth" =>
         /\ ChildrenOfType(f.rowContainer, CHART_TYPE)
         /\ Len(result[f.rowContainer].children) = Len(f.layers[f.layerIndex])
         /\ \A i, j \in 1..Len(result[f.rowContainer].children) :
              i < j => ChildMeta(f.rowContainer, i).col <= ChildMeta(f.rowContainer, j).col

ContainersUniform ==
  /\ \A c \in ColumnNodes :
       /\ NodesBelow(c, Cardinality(DOMAIN result)) \cap ColumnNodes = {}
       /\ ChildrenOfType(c, CHART_TYPE) \/ ChildrenOfType(c, ROW_TYPE)
  /\ \A r \in RowNodes :
       ChildrenOfType(r, CHART_TYPE) \/ ChildrenOfType(r, COLUMN_TYPE)

C14_DepthCap ==
  /\ \A d \in 1..Len(stack) : FlatAtDepth(stack[d])
  /\ ContainersUniform
  /\ Done => \A k \in Leaves : PathTo(k, Cardinality(DOMAIN result)) \in PathShapes

(***************************************************************************)
(* C15  No empty containers, as claimed: in the registry the conversion of *)
(* a valid layout returns, every Row and every Column has at least one     *)
(* child and a width that is an integer of 1 or more.                      *)
(***************************************************************************)
C15_NoEmptyContainers ==
  (Done /\ ValidLayout(dash)) =>
    \A k \in RowNodes \cup ColumnNodes :
      /\ result[k].children # <<>>
      /\ HasWidth(k)
      /\ WidthOf(k) \in Nat \ {0}

====
